---- MODULE Spec2Model ----
(***************************************************************************)
(* Model of roomba-lib (src/roomba.c, src/roomba.h): the command validator *)
(* is_valid_roomba_command, the catalog lookup get_command_data_bytes and  *)
(* the byte-splitting macros HIGH_BYTE / LOW_BYTE applied to the Drive     *)
(* serial sequence documented in roomba.h, and the sensor packets of       *)
(* roomba.h: the types of the packet fields (ROOMBA_PACKET_GROUP_100), the *)
(* value a packet's bytes stand for, the stream segment format, and the    *)
(* group packets (the structs ROOMBA_PACKET_GROUP_n and the documented      *)
(* table of group sizes and member ranges).                                 *)
(*                                                                         *)
(* The operations are pure functions of their arguments.  A                *)
(* behaviour is one call: Init draws the function, its arguments and the   *)
(* width of C int of the build; one action per function executes the call  *)
(* and records what it returned.                                           *)
(***************************************************************************)
EXTENDS Integers, Sequences, FiniteSets, TLC

VARIABLES
    intBits,    \* width of C `int` / `unsigned int` of the build (16 on AVR, 32 on a host)
    fn,         \* which function this behaviour calls
    pc,         \* "call" before the function body ran, "return" after
    command,    \* uint8_t command[]: the array passed to is_valid_roomba_command
    size,       \* uint16_t size
    code,       \* ROOMBA_OP_CODE argument of get_command_data_bytes
    velocity,   \* 16-bit value handed to HIGH_BYTE / LOW_BYTE (the Drive velocity)
    radius,     \* 16-bit Drive argument handed to HIGH_BYTE / LOW_BYTE
    ret,        \* int returned by is_valid_roomba_command / get_command_data_bytes
    reads,      \* indices of command[] that is_valid_roomba_command read
    sequence,   \* the bytes built with the macros (the Drive serial sequence)
    packet,     \* ROOMBA_PACKET_CODE / ROOMBA_PACKET_GROUP of the packet whose bytes are read
    raw,        \* the data bytes of that packet or group, in the order they are sent
    value,      \* the value the data bytes stand for
    stream,     \* a stream segment: [19][N-bytes][Packet ID 1][Packet 1 data]...[Checksum]
    nbytes,     \* number of bytes between the n-bytes byte and the checksum of the segment
    lowsum,     \* low byte of the sum of all bytes of the segment
    readings    \* the <<packet id, value>> pairs of the segment or group, in order

\* the variables of the sensor-packet operations
packetVars == <<packet, raw, value, stream, nbytes, lowsum, readings>>

vars == <<intBits, fn, pc, command, size, code, velocity, radius, ret, reads, sequence,
          packetVars>>

----------------------------------------------------------------------------
(* Bounds of the model *)

\* longest command array passed to the validator
MaxLen == 6

----------------------------------------------------------------------------
(* Program constants, roomba.h *)

ROOMBA_RESET == 7
ROOMBA_START == 128
ROOMBA_BAUD == 129
ROOMBA_CONTROL == 130
ROOMBA_SAFE == 131
ROOMBA_FULL == 132
ROOMBA_POWER == 133
ROOMBA_SPOT == 134
ROOMBA_CLEAN == 135
ROOMBA_MAX == 136
ROOMBA_DRIVE == 137
ROOMBA_MOTORS == 138
ROOMBA_LEDS == 139
ROOMBA_SONG == 140
ROOMBA_PLAY == 141
ROOMBA_SENSORS == 142
ROOMBA_SEEK_DOCK == 143
ROOMBA_PWM_MOTORS == 144
ROOMBA_DRIVE_DIRECT == 145
ROOMBA_DRIVE_PWM == 146
ROOMBA_STREAM == 148
ROOMBA_QUERY_LIST == 149
ROOMBA_PAUSE_RESUME_STREAM == 150
ROOMBA_SCHEDULING_LEDS == 162
ROOMBA_DIGIT_LEDS_RAW == 163
ROOMBA_DIGIT_LEDS_ASCII == 164
ROOMBA_BUTTONS_CMD == 165
ROOMBA_SCHEDULE == 167
ROOMBA_SET_DAY_TIME == 168
ROOMBA_STOP == 173

\* 0x8000, 0x7FFF, 0xFFFF, 0x0001
ROOMBA_RADIUS_STRAIGHT_NEGATIVE == 32768
ROOMBA_RADIUS_STRAIGHT_POSITIVE == 32767
ROOMBA_RADIUS_CLOCKWISE == 65535
ROOMBA_RADIUS_COUNTER_CLOCKWISE == 1

\* ROOMBA_PACKET_CODE: the first and last single-value packet and the
\* packets named below
ROOMBA_BUMPS_WHEELDROPS == 7
ROOMBA_VIRTUAL_WALL == 13
ROOMBA_DISTANCE == 19
ROOMBA_VOLTAGE == 22
ROOMBA_TEMPERATURE == 24
ROOMBA_CLIFF_FRONT_LEFT_SIGNAL == 29
ROOMBA_STASIS == 58

\* the header byte of a stream segment, "[19][N-bytes]..."
StreamHeader == 19

Byte == 0..255

\* widths of C int the library is built with: avr-gcc (16) and hosted gcc/clang (32)
IntWidths == {16, 32}

----------------------------------------------------------------------------
(* C integer arithmetic at a given width of int *)

\* INT_MAX of the build; written so that no intermediate value exceeds it
IntMax(bits) == (2 ^ (bits - 2) - 1) + 2 ^ (bits - 2)

\* ToInt without the wrap-around: the value is kept as it is
ToInt_NoWrap(x, bits) == x

\* x converted to (signed) int: unchanged when representable, otherwise
\* wrapped around two's complement
ToInt(x, bits) ==
    IF x + 1 >= -IntMax(bits) /\ x <= IntMax(bits)
    THEN x
    ELSE ((x + 2 ^ (bits - 1)) % (2 ^ bits)) - 2 ^ (bits - 1)

\* (unsigned int) x, as the bytes of the unsigned value, least significant
\* first: a negative x converts modulo 2^bits
ToUnsigned(x, bits) == [i \in 1..(bits \div 8) |-> (x \div (256 ^ (i - 1))) % 256]

\* u >> 8 on an unsigned int: the low byte falls off, a zero byte comes in
ShiftRight8(u) == Tail(u) \o <<0>>

\* (unsigned char) u: the low byte
ToUChar(u) == u[1]

\* ShiftOr with the two bytes taken in the wrong order (low byte first)
ShiftOr_LowFirst(hi, lo, bits) == ToInt(lo * 256, bits) + hi

\* command[i] << 8 | command[j]: both uint8_t operands are promoted to int;
\* the shift is done in int (for a 16-bit int a high byte >= 128 lands in the
\* sign bit; gcc defines the result by wrap-around), and the low 8 bits of the
\* shifted value are 0, so the bitwise OR with a byte adds it.
ShiftOr(hi, lo, bits) == ToInt(hi * 256, bits) + lo

\* x == k for a hexadecimal constant k: k has type int when it fits int and
\* x is compared as it is; otherwise k is an unsigned int and x is converted
\* to unsigned int (modulo 2^bits) first.
EqHex(x, k, bits) ==
    IF k <= IntMax(bits) THEN x = k ELSE x % (2 ^ bits) = k

\* a C truth value as int
CBool(b) == IF b THEN 1 ELSE 0

----------------------------------------------------------------------------
(* roomba.c *)

get_command_data_bytes(c) ==
    IF c = ROOMBA_DRIVE THEN 4 ELSE -1

\* is_valid_roomba_command with the Reset case testing size >= 1
is_valid_roomba_command_ResetAnySize(cmd, sz, bits) ==
    CASE cmd[1] = ROOMBA_RESET -> CBool(sz >= 1)
      [] cmd[1] = ROOMBA_DRIVE ->
            CBool(/\ sz = 5
                  /\ ShiftOr(cmd[2], cmd[3], bits) >= -500
                  /\ ShiftOr(cmd[2], cmd[3], bits) <= 500
                  /\ \/ /\ ShiftOr(cmd[4], cmd[5], bits) >= -2000
                        /\ ShiftOr(cmd[4], cmd[5], bits) <= 2000
                     \/ EqHex(ShiftOr(cmd[4], cmd[5], bits), ROOMBA_RADIUS_STRAIGHT_POSITIVE, bits)
                     \/ EqHex(ShiftOr(cmd[4], cmd[5], bits), ROOMBA_RADIUS_STRAIGHT_NEGATIVE, bits))
      [] OTHER -> 0

\* is_valid_roomba_command with a further case, ROOMBA_START: return size==1
is_valid_roomba_command_StartCase(cmd, sz, bits) ==
    CASE cmd[1] = ROOMBA_RESET -> CBool(sz = 1)
      [] cmd[1] = ROOMBA_START -> CBool(sz = 1)
      [] cmd[1] = ROOMBA_DRIVE ->
            CBool(/\ sz = 5
                  /\ ShiftOr(cmd[2], cmd[3], bits) >= -500
                  /\ ShiftOr(cmd[2], cmd[3], bits) <= 500
                  /\ \/ /\ ShiftOr(cmd[4], cmd[5], bits) >= -2000
                        /\ ShiftOr(cmd[4], cmd[5], bits) <= 2000
                     \/ EqHex(ShiftOr(cmd[4], cmd[5], bits), ROOMBA_RADIUS_STRAIGHT_POSITIVE, bits)
                     \/ EqHex(ShiftOr(cmd[4], cmd[5], bits), ROOMBA_RADIUS_STRAIGHT_NEGATIVE, bits))
      [] OTHER -> 0

\* is_valid_roomba_command with the Drive case lacking its size test: the
\* four data bytes are looked at whenever the array holds them
is_valid_roomba_command_NoSizeTest(cmd, sz, bits) ==
    CASE cmd[1] = ROOMBA_RESET -> CBool(sz = 1)
      [] cmd[1] = ROOMBA_DRIVE ->
            CBool(/\ Len(cmd) >= 5
                  /\ ShiftOr(cmd[2], cmd[3], bits) >= -500
                  /\ ShiftOr(cmd[2], cmd[3], bits) <= 500
                  /\ \/ /\ ShiftOr(cmd[4], cmd[5], bits) >= -2000
                        /\ ShiftOr(cmd[4], cmd[5], bits) <= 2000
                     \/ EqHex(ShiftOr(cmd[4], cmd[5], bits), ROOMBA_RADIUS_STRAIGHT_POSITIVE, bits)
                     \/ EqHex(ShiftOr(cmd[4], cmd[5], bits), ROOMBA_RADIUS_STRAIGHT_NEGATIVE, bits))
      [] OTHER -> 0

\* command is 1-indexed here: command[1] is the C command[0]
is_valid_roomba_command(cmd, sz, bits) ==
    CASE cmd[1] = ROOMBA_RESET -> CBool(sz = 1)
      [] cmd[1] = ROOMBA_DRIVE ->
            CBool(/\ sz = 5
                  /\ ShiftOr(cmd[2], cmd[3], bits) >= -500
                  /\ ShiftOr(cmd[2], cmd[3], bits) <= 500
                  /\ \/ /\ ShiftOr(cmd[4], cmd[5], bits) >= -2000
                        /\ ShiftOr(cmd[4], cmd[5], bits) <= 2000
                     \/ EqHex(ShiftOr(cmd[4], cmd[5], bits), ROOMBA_RADIUS_STRAIGHT_POSITIVE, bits)
                     \/ EqHex(ShiftOr(cmd[4], cmd[5], bits), ROOMBA_RADIUS_STRAIGHT_NEGATIVE, bits))
      [] OTHER -> 0

\* the C indices of command[] the evaluation above touches (&& and || short-circuit)
command_reads(cmd, sz, bits) ==
    {0} \cup
    IF cmd[1] = ROOMBA_DRIVE /\ sz = 5
    THEN {1, 2} \cup
         IF ShiftOr(cmd[2], cmd[3], bits) >= -500 /\ ShiftOr(cmd[2], cmd[3], bits) <= 500
         THEN {3, 4}
         ELSE {}
    ELSE {}

----------------------------------------------------------------------------
(* roomba.h: macros and the Drive serial sequence *)

\* LOW_BYTE without its cast: the value itself
LOW_BYTE_NoCast(v, bits) == v

\* (unsigned char) (v)
LOW_BYTE(v, bits) == v % 256

\* HIGH_BYTE without its two casts: (v) >> 8 on the signed value
HIGH_BYTE_NoCasts(v, bits) == v \div 256

\* (unsigned char) (((unsigned int) (v)) >> 8)
HIGH_BYTE(v, bits) == ToUChar(ShiftRight8(ToUnsigned(v, bits)))

\* [137] [Velocity high byte] [Velocity low byte] [Radius high byte] [Radius low byte]
DriveSequence(v, r, bits) ==
    <<ROOMBA_DRIVE, HIGH_BYTE(v, bits), LOW_BYTE(v, bits),
                    HIGH_BYTE(r, bits), LOW_BYTE(r, bits)>>

\* "Data Bytes:" of every fixed-length opcode of interface version 2
\* (ROOMBA_INTERFACE_VERSION defaults to 2); Song, Stream and Query List
\* have a variable length and no entry.
DataBytes ==
    (ROOMBA_RESET :> 0) @@ (ROOMBA_START :> 0) @@ (ROOMBA_BAUD :> 1) @@
    (ROOMBA_CONTROL :> 0) @@ (ROOMBA_SAFE :> 0) @@ (ROOMBA_FULL :> 0) @@
    (ROOMBA_POWER :> 0) @@ (ROOMBA_SPOT :> 0) @@ (ROOMBA_CLEAN :> 0) @@
    (ROOMBA_MAX :> 0) @@ (ROOMBA_DRIVE :> 4) @@ (ROOMBA_MOTORS :> 1) @@
    (ROOMBA_LEDS :> 3) @@ (ROOMBA_PLAY :> 1) @@ (ROOMBA_SENSORS :> 1) @@
    (ROOMBA_SEEK_DOCK :> 0) @@ (ROOMBA_PWM_MOTORS :> 3) @@
    (ROOMBA_DRIVE_DIRECT :> 4) @@ (ROOMBA_DRIVE_PWM :> 4) @@
    (ROOMBA_PAUSE_RESUME_STREAM :> 1) @@ (ROOMBA_SCHEDULING_LEDS :> 2) @@
    (ROOMBA_DIGIT_LEDS_RAW :> 4) @@ (ROOMBA_DIGIT_LEDS_ASCII :> 4) @@
    (ROOMBA_BUTTONS_CMD :> 1) @@ (ROOMBA_SCHEDULE :> 15) @@
    (ROOMBA_SET_DAY_TIME :> 3) @@ (ROOMBA_STOP :> 0)

----------------------------------------------------------------------------
(* roomba.h: sensor packets *)

\* struct _pkt_group_100: the C type of the field of every single-value
\* packet, in field order; the fields are the packets 7 (bumps_wheeldrops)
\* to 58 (stasis) in ascending packet id ("100 | 80 | 7 - 58")
ROOMBA_PACKET_GROUP_100 ==
    <<"uint8_t", "uint8_t", "uint8_t", "uint8_t", "uint8_t", "uint8_t",
      "uint8_t", "uint8_t", "uint8_t", "uint8_t", "uint8_t", "uint8_t",
      "int16_t", "int16_t", "uint8_t", "uint16_t", "int16_t", "int8_t",
      "uint16_t", "uint16_t", "uint16_t", "uint16_t", "uint16_t", "uint16_t",
      "uint16_t", "uint8_t", "uint16_t", "uint8_t", "uint8_t", "uint8_t",
      "uint8_t", "uint8_t", "int16_t", "int16_t", "int16_t", "int16_t",
      "uint16_t", "uint16_t", "uint8_t", "uint16_t", "uint16_t", "uint16_t",
      "uint16_t", "uint16_t", "uint16_t", "uint8_t", "uint8_t", "int16_t",
      "int16_t", "int16_t", "int16_t", "uint8_t">>

\* the single-value packets
PacketIds == ROOMBA_BUMPS_WHEELDROPS..ROOMBA_STASIS

\* the C type of the field that holds packet id
PacketType(id) == ROOMBA_PACKET_GROUP_100[id - ROOMBA_BUMPS_WHEELDROPS + 1]

\* sizeof and signedness of the <stdint.h> types the structs use
TypeBytes(t) == IF t \in {"uint8_t", "int8_t"} THEN 1 ELSE 2

\* every field taken to be unsigned
TypeSigned_Never(t) == FALSE

TypeSigned(t) == t \in {"int8_t", "int16_t"}

\* number of data bytes of packet id
PacketBytes(id) == TypeBytes(PacketType(id))

\* the bit pattern of data bytes sent low byte first
Pattern_LowFirst(bytes) ==
    IF Len(bytes) = 1 THEN bytes[1] ELSE bytes[2] * 256 + bytes[1]

\* the bit pattern of the data bytes of a packet: one byte, or a 16-bit
\* value "sent high byte first"
Pattern(bytes) ==
    IF Len(bytes) = 1 THEN bytes[1] ELSE bytes[1] * 256 + bytes[2]

\* the value the data bytes of packet id stand for: their bit pattern held
\* in the field's type (two's complement for int8_t and int16_t)
PacketValue(id, bytes) ==
    IF TypeSigned(PacketType(id))
    THEN ToInt(Pattern(bytes), 8 * TypeBytes(PacketType(id)))
    ELSE Pattern(bytes)

\* [Packet ID 1][Packet 1 data...][Packet ID 2][Packet 2 data...]: the
\* <<packet id, value>> pairs of a payload made of whole packets
RECURSIVE SplitPackets(_)
SplitPackets(payload) ==
    IF payload = <<>>
    THEN <<>>
    ELSE LET id == payload[1]
             w  == PacketBytes(id)
         IN  <<<<id, PacketValue(id, SubSeq(payload, 2, 1 + w))>>>>
             \o SplitPackets(SubSeq(payload, 2 + w, Len(payload)))

\* the sum of all the bytes of a segment
RECURSIVE ByteSum(_)
ByteSum(bytes) == IF bytes = <<>> THEN 0 ELSE bytes[1] + ByteSum(Tail(bytes))

\* the bytes between the n-bytes byte and the checksum
Payload(segment) == SubSeq(segment, 3, Len(segment) - 1)

\* the stream segment of the Stream example, as printed
ExampleSegment == <<StreamHeader, 5, 29, 2, 25, 13, 0, 163>>

----------------------------------------------------------------------------
(* roomba.h: group packets *)

\* enum _pv (ROOMBA_PACKET_CODE): the value of every enumerator, under the
\* name the group structs give its field (ROOMBA_DISTANCE = 19 is the field
\* "distance")
ROOMBA_PACKET_CODE ==
    ("bumps_wheeldrops" :> 7) @@ ("wall" :> 8) @@ ("cliff_left" :> 9) @@
    ("cliff_front_left" :> 10) @@ ("cliff_front_right" :> 11) @@
    ("cliff_right" :> 12) @@ ("virtual_wall" :> 13) @@ ("overcurrents" :> 14) @@
    ("dirt_detect" :> 15) @@ ("unused_1" :> 16) @@ ("ir_opcode" :> 17) @@
    ("buttons_pkt" :> 18) @@ ("distance" :> 19) @@ ("angle" :> 20) @@
    ("charging_state" :> 21) @@ ("voltage" :> 22) @@ ("current" :> 23) @@
    ("temperature" :> 24) @@ ("battery_charge" :> 25) @@
    ("battery_capacity" :> 26) @@ ("wall_signal" :> 27) @@
    ("cliff_left_signal" :> 28) @@ ("cliff_front_left_signal" :> 29) @@
    ("cliff_front_right_signal" :> 30) @@ ("cliff_right_signal" :> 31) @@
    ("unused_2" :> 32) @@ ("unused_3" :> 33) @@ ("charger_available" :> 34) @@
    ("open_interface_mode" :> 35) @@ ("song_number" :> 36) @@
    ("song_playing" :> 37) @@ ("oi_stream_num_packets" :> 38) @@
    ("velocity" :> 39) @@ ("radius" :> 40) @@ ("velocity_right" :> 41) @@
    ("velocity_left" :> 42) @@ ("encoder_counts_left" :> 43) @@
    ("encoder_counts_right" :> 44) @@ ("light_bumper" :> 45) @@
    ("light_bump_left" :> 46) @@ ("light_bump_front_left" :> 47) @@
    ("light_bump_center_left" :> 48) @@ ("light_bump_center_right" :> 49) @@
    ("light_bump_front_right" :> 50) @@ ("light_bump_right" :> 51) @@
    ("ir_opcode_left" :> 52) @@ ("ir_opcode_right" :> 53) @@
    ("left_motor_current" :> 54) @@ ("right_motor_current" :> 55) @@
    ("main_brush_current" :> 56) @@ ("side_brush_current" :> 57) @@
    ("stasis" :> 58)

\* "Data Bytes:" of the doc comment of every packet 7..58, in packet order;
\* one comment, "Data Bytes, 3", stands before ROOMBA_UNUSED_2 = 32 and
\* ROOMBA_UNUSED_3 = 33 together: it is entered at 32, and 33 has no comment
\* of its own
PacketDataBytes ==
    <<1, 1, 1, 1, 1, 1, 1, 1, 1, 1, 1, 1, 2, 2, 1, 2, 2, 1, 2, 2, 2, 2, 2, 2,
      2, 3, 0, 1, 1, 1, 1, 1, 2, 2, 2, 2, 2, 2, 1, 2, 2, 2, 2, 2, 2, 1, 1, 2,
      2, 2, 2, 1>>

\* enum ROOMBA_PACKET_GROUP: G0 .. G6, ALL_PACKETS, G101, G106, G107
ROOMBA_PACKET_GROUP == {0, 1, 2, 3, 4, 5, 6, 100, 101, 106, 107}

\* the table "Group Packet ID | Packet Size | Contains Packets"
GroupPacketSize ==
    (0 :> 26) @@ (1 :> 10) @@ (2 :> 6) @@ (3 :> 10) @@ (4 :> 14) @@ (5 :> 12) @@
    (6 :> 52) @@ (100 :> 80) @@ (101 :> 28) @@ (106 :> 12) @@ (107 :> 9)

ContainsPackets ==
    (0 :> 7..26) @@ (1 :> 7..16) @@ (2 :> 17..20) @@ (3 :> 21..26) @@
    (4 :> 27..34) @@ (5 :> 35..42) @@ (6 :> 7..42) @@ (100 :> 7..58) @@
    (101 :> 43..58) @@ (106 :> 46..51) @@ (107 :> 54..58)

\* the structs ROOMBA_PACKET_GROUP_n: the <<type, name>> of every field, in
\* declaration order
pkt_group_0 ==
    <<<<"uint8_t", "bumps_wheeldrops">>, <<"uint8_t", "wall">>,
      <<"uint8_t", "cliff_left">>, <<"uint8_t", "cliff_front_left">>,
      <<"uint8_t", "cliff_front_right">>, <<"uint8_t", "cliff_right">>,
      <<"uint8_t", "virtual_wall">>, <<"uint8_t", "overcurrents">>,
      <<"uint8_t", "dirt_detect">>, <<"uint8_t", "unused_1">>,
      <<"uint8_t", "ir_opcode">>, <<"uint8_t", "buttons_pkt">>,
      <<"int16_t", "distance">>, <<"int16_t", "angle">>,
      <<"uint8_t", "charging_state">>, <<"uint16_t", "voltage">>,
      <<"int16_t", "current">>, <<"int8_t", "temperature">>,
      <<"uint16_t", "battery_charge">>, <<"uint16_t", "battery_capacity">>>>

pkt_group_1 ==
    <<<<"uint8_t", "bumps_wheeldrops">>, <<"uint8_t", "wall">>,
      <<"uint8_t", "cliff_left">>, <<"uint8_t", "cliff_front_left">>,
      <<"uint8_t", "cliff_front_right">>, <<"uint8_t", "cliff_right">>,
      <<"uint8_t", "virtual_wall">>, <<"uint8_t", "overcurrents">>,
      <<"uint8_t", "dirt_detect">>, <<"uint8_t", "unused_1">>>>

\* struct _pkt_group_2 with its signed fields declared uint16_t
pkt_group_2_Unsigned ==
    <<<<"uint8_t", "ir_opcode">>, <<"uint8_t", "buttons_pkt">>,
      <<"uint16_t", "distance">>, <<"uint16_t", "angle">>>>

pkt_group_2 ==
    <<<<"uint8_t", "ir_opcode">>, <<"uint8_t", "buttons_pkt">>,
      <<"int16_t", "distance">>, <<"int16_t", "angle">>>>

\* struct _pkt_group_3 with the temperature declared int16_t
pkt_group_3_WideTemperature ==
    <<<<"uint8_t", "charging_state">>, <<"uint16_t", "voltage">>,
      <<"int16_t", "current">>, <<"int16_t", "temperature">>,
      <<"uint16_t", "battery_charge">>, <<"uint16_t", "battery_capacity">>>>

pkt_group_3 ==
    <<<<"uint8_t", "charging_state">>, <<"uint16_t", "voltage">>,
      <<"int16_t", "current">>, <<"int8_t", "temperature">>,
      <<"uint16_t", "battery_charge">>, <<"uint16_t", "battery_capacity">>>>

pkt_group_4 ==
    <<<<"uint16_t", "wall_signal">>, <<"uint16_t", "cliff_left_signal">>,
      <<"uint16_t", "cliff_front_left_signal">>,
      <<"uint16_t", "cliff_front_right_signal">>,
      <<"uint16_t", "cliff_right_signal">>, <<"uint8_t", "unused_2">>,
      <<"uint16_t", "unused_3">>, <<"uint8_t", "charger_available">>>>

pkt_group_5 ==
    <<<<"uint8_t", "open_interface_mode">>, <<"uint8_t", "song_number">>,
      <<"uint8_t", "song_playing">>, <<"uint8_t", "oi_stream_num_packets">>,
      <<"int16_t", "velocity">>, <<"int16_t", "radius">>,
      <<"int16_t", "velocity_right">>, <<"int16_t", "velocity_left">>>>

pkt_group_6 ==
    <<<<"uint8_t", "bumps_wheeldrops">>, <<"uint8_t", "wall">>,
      <<"uint8_t", "cliff_left">>, <<"uint8_t", "cliff_front_left">>,
      <<"uint8_t", "cliff_front_right">>, <<"uint8_t", "cliff_right">>,
      <<"uint8_t", "virtual_wall">>, <<"uint8_t", "overcurrents">>,
      <<"uint8_t", "dirt_detect">>, <<"uint8_t", "unused_1">>,
      <<"uint8_t", "ir_opcode">>, <<"uint8_t", "buttons_pkt">>,
      <<"int16_t", "distance">>, <<"int16_t", "angle">>,
      <<"uint8_t", "charging_state">>, <<"uint16_t", "voltage">>,
      <<"int16_t", "current">>, <<"int8_t", "temperature">>,
      <<"uint16_t", "battery_charge">>, <<"uint16_t", "battery_capacity">>,
      <<"uint16_t", "wall_signal">>, <<"uint16_t", "cliff_left_signal">>,
      <<"uint16_t", "cliff_front_left_signal">>,
      <<"uint16_t", "cliff_front_right_signal">>,
      <<"uint16_t", "cliff_right_signal">>, <<"uint8_t", "unused_2">>,
      <<"uint16_t", "unused_3">>, <<"uint8_t", "charger_available">>,
      <<"uint8_t", "open_interface_mode">>, <<"uint8_t", "song_number">>,
      <<"uint8_t", "song_playing">>, <<"uint8_t", "oi_stream_num_packets">>,
      <<"int16_t", "velocity">>, <<"int16_t", "radius">>,
      <<"int16_t", "velocity_right">>, <<"int16_t", "velocity_left">>>>

pkt_group_100 ==
    <<<<"uint8_t", "bumps_wheeldrops">>, <<"uint8_t", "wall">>,
      <<"uint8_t", "cliff_left">>, <<"uint8_t", "cliff_front_left">>,
      <<"uint8_t", "cliff_front_right">>, <<"uint8_t", "cliff_right">>,
      <<"uint8_t", "virtual_wall">>, <<"uint8_t", "overcurrents">>,
      <<"uint8_t", "dirt_detect">>, <<"uint8_t", "unused_1">>,
      <<"uint8_t", "ir_opcode">>, <<"uint8_t", "buttons_pkt">>,
      <<"int16_t", "distance">>, <<"int16_t", "angle">>,
      <<"uint8_t", "charging_state">>, <<"uint16_t", "voltage">>,
      <<"int16_t", "current">>, <<"int8_t", "temperature">>,
      <<"uint16_t", "battery_charge">>, <<"uint16_t", "battery_capacity">>,
      <<"uint16_t", "wall_signal">>, <<"uint16_t", "cliff_left_signal">>,
      <<"uint16_t", "cliff_front_left_signal">>,
      <<"uint16_t", "cliff_front_right_signal">>,
      <<"uint16_t", "cliff_right_signal">>, <<"uint8_t", "unused_2">>,
      <<"uint16_t", "unused_3">>, <<"uint8_t", "charger_available">>,
      <<"uint8_t", "open_interface_mode">>, <<"uint8_t", "song_number">>,
      <<"uint8_t", "song_playing">>, <<"uint8_t", "oi_stream_num_packets">>,
      <<"int16_t", "velocity">>, <<"int16_t", "radius">>,
      <<"int16_t", "velocity_right">>, <<"int16_t", "velocity_left">>,
      <<"uint16_t", "encoder_counts_left">>,
      <<"uint16_t", "encoder_counts_right">>, <<"uint8_t", "light_bumper">>,
      <<"uint16_t", "light_bump_left">>,
      <<"uint16_t", "light_bump_front_left">>,
      <<"uint16_t", "light_bump_center_left">>,
      <<"uint16_t", "light_bump_center_right">>,
      <<"uint16_t", "light_bump_front_right">>,
      <<"uint16_t", "light_bump_right">>, <<"uint8_t", "ir_opcode_left">>,
      <<"uint8_t", "ir_opcode_right">>, <<"int16_t", "left_motor_current">>,
      <<"int16_t", "right_motor_current">>,
      <<"int16_t", "main_brush_current">>,
      <<"int16_t", "side_brush_current">>, <<"uint8_t", "stasis">>>>

pkt_group_101 ==
    <<<<"uint16_t", "encoder_counts_left">>,
      <<"uint16_t", "encoder_counts_right">>, <<"uint8_t", "light_bumper">>,
      <<"uint16_t", "light_bump_left">>,
      <<"uint16_t", "light_bump_front_left">>,
      <<"uint16_t", "light_bump_center_left">>,
      <<"uint16_t", "light_bump_center_right">>,
      <<"uint16_t", "light_bump_front_right">>,
      <<"uint16_t", "light_bump_right">>, <<"uint8_t", "ir_opcode_left">>,
      <<"uint8_t", "ir_opcode_right">>, <<"int16_t", "left_motor_current">>,
      <<"int16_t", "right_motor_current">>,
      <<"int16_t", "main_brush_current">>,
      <<"int16_t", "side_brush_current">>, <<"uint8_t", "stasis">>>>

pkt_group_106 ==
    <<<<"uint16_t", "light_bump_left">>,
      <<"uint16_t", "light_bump_front_left">>,
      <<"uint16_t", "light_bump_center_left">>,
      <<"uint16_t", "light_bump_center_right">>,
      <<"uint16_t", "light_bump_front_right">>,
      <<"uint16_t", "light_bump_right">>>>

\* struct _pkt_group_107 with the stasis field declared first
pkt_group_107_StasisFirst ==
    <<<<"uint8_t", "stasis">>, <<"int16_t", "left_motor_current">>,
      <<"int16_t", "right_motor_current">>, <<"int16_t", "main_brush_current">>,
      <<"int16_t", "side_brush_current">>>>

pkt_group_107 ==
    <<<<"int16_t", "left_motor_current">>,
      <<"int16_t", "right_motor_current">>,
      <<"int16_t", "main_brush_current">>,
      <<"int16_t", "side_brush_current">>, <<"uint8_t", "stasis">>>>
\* the struct that holds group packet `group`
Struct(group) ==
    CASE group = 0 -> pkt_group_0
      [] group = 1 -> pkt_group_1
      [] group = 2 -> pkt_group_2
      [] group = 3 -> pkt_group_3
      [] group = 4 -> pkt_group_4
      [] group = 5 -> pkt_group_5
      [] group = 6 -> pkt_group_6
      [] group = 100 -> pkt_group_100
      [] group = 101 -> pkt_group_101
      [] group = 106 -> pkt_group_106
      [] group = 107 -> pkt_group_107

\* the number of data bytes the fields of a struct stand for (the sum of the
\* sizes of the field types; padding is no data)
RECURSIVE StructBytes(_)
StructBytes(fields) ==
    IF fields = <<>> THEN 0
    ELSE TypeBytes(fields[1][1]) + StructBytes(Tail(fields))

\* the packet ids a struct's fields are named after, in declaration order
StructPackets(fields) == [i \in 1..Len(fields) |-> ROOMBA_PACKET_CODE[fields[i][2]]]

\* the value data bytes stand for in a field of type t ("sent high byte
\* first", two's complement for the signed types)
FieldValue(t, bytes) ==
    IF TypeSigned(t) THEN ToInt(Pattern(bytes), 8 * TypeBytes(t)) ELSE Pattern(bytes)

\* the data bytes of a group packet held in the fields of its struct, field
\* after field: the <<packet id, value>> of every field
RECURSIVE GroupValue(_, _)
GroupValue(fields, bytes) ==
    IF fields = <<>> THEN <<>>
    ELSE LET t == fields[1][1]
             w == TypeBytes(t)
         IN  <<<<ROOMBA_PACKET_CODE[fields[1][2]], FieldValue(t, SubSeq(bytes, 1, w))>>>>
             \o GroupValue(Tail(fields), SubSeq(bytes, w + 1, Len(bytes)))

----------------------------------------------------------------------------
(* Arguments the calls are made with *)

\* 16-bit patterns around every limit the validator compares with:
\* 0, 500, 2000, 0x7FFF/0x8000, -2000, -500, -1, and the header's -200 / 200
Limits == {0, 500, 2000, 32767, 32768, 63536, 65036, 65535}
SampleWords ==
    {w \in 0..65535 : \E l \in Limits : w - l \in -1..1} \cup {200, 65336}

\* data words used behind opcodes other than Drive
PlainWords == {200, 65336}

\* bytes that follow the fifth byte of a longer array
PadBytes == {0, 255}
Pads == [1..(MaxLen - 5) -> PadBytes]

\* the first n bytes of [opc][vw high][vw low][rw high][rw low][pad...]
Array(opc, vw, rw, pad, n) ==
    SubSeq(<<opc, vw \div 256, vw % 256, rw \div 256, rw % 256>> \o pad, 1, n)

DriveArrays ==
    {Array(ROOMBA_DRIVE, vw, rw, pad, n) :
        vw \in SampleWords, rw \in SampleWords, pad \in Pads, n \in 1..MaxLen}

PlainArrays ==
    {Array(opc, vw, rw, pad, n) :
        opc \in Byte, vw \in PlainWords, rw \in PlainWords, pad \in Pads, n \in 1..MaxLen}

Commands == DriveArrays \cup PlainArrays

\* Drive arguments: every velocity of the documented range, radii at the
\* limits of the documented range and the four special cases
Velocities == -500..500
Radii == {-2000, -1999, -256, -1, 0, 1, 255, 256, 500, 1999, 2000,
          ROOMBA_RADIUS_STRAIGHT_POSITIVE, ROOMBA_RADIUS_STRAIGHT_NEGATIVE,
          ROOMBA_RADIUS_CLOCKWISE, ROOMBA_RADIUS_COUNTER_CLOCKWISE, -32768}

\* data bytes the packets are read with
SampleBytes == {0, 1, 2, 16, 25, 37, 127, 128, 200, 255}
RawBytes(id) == [1..PacketBytes(id) -> SampleBytes]

\* the checksum the robot sends: the 8-bit complement of the other bytes
Complement(bytes) == (256 - (ByteSum(bytes) % 256)) % 256

\* a segment around a payload, with the robot's checksum plus d
Segment(payload, d) ==
    LET body == <<StreamHeader, Len(payload)>> \o payload
    IN  body \o <<(Complement(body) + d) % 256>>

\* payloads of whole packets: the request of the Stream example, [29] [13],
\* and single packets of every type
Payloads ==
    {<<ROOMBA_CLIFF_FRONT_LEFT_SIGNAL>> \o r \o <<ROOMBA_VIRTUAL_WALL, w>> :
        r \in RawBytes(ROOMBA_CLIFF_FRONT_LEFT_SIGNAL), w \in {0, 1}}
    \cup UNION {{<<id>> \o r : r \in RawBytes(id)} :
                    id \in {ROOMBA_DISTANCE, ROOMBA_VOLTAGE, ROOMBA_TEMPERATURE,
                            ROOMBA_VIRTUAL_WALL}}

\* segments with the robot's checksum and with a checksum that is off by one
Segments == {Segment(p, d) : p \in Payloads, d \in {0, 1}}

\* data bytes of a whole group packet: as many bytes as the fields of its
\* struct take, two byte values in turn, so that every 16-bit field is read
\* with a high byte below and from 128 and every 8-bit field likewise
GroupBytes == {0, 1, 127, 128, 255}
GroupBuffers(group) ==
    {[i \in 1..StructBytes(Struct(group)) |-> IF i % 2 = 1 THEN a ELSE b] :
        a \in GroupBytes, b \in GroupBytes}

\* every value of a 16-bit signed integer (int16_t)
Words16 == -32768..32767

----------------------------------------------------------------------------
(* The state machine: one call per behaviour *)

Init ==
    /\ intBits \in IntWidths
    /\ pc = "call"
    /\ ret = 0
    /\ reads = {}
    /\ sequence = <<>>
    /\ value = 0 /\ nbytes = 0 /\ lowsum = 0 /\ readings = <<>>
    /\ \/ /\ fn = "is_valid_roomba_command"
          /\ command \in Commands
          /\ size \in 0..Len(command)
          /\ code = 0 /\ velocity = 0 /\ radius = 0
          /\ packet = 0 /\ raw = <<>> /\ stream = <<>>
       \/ /\ fn = "get_command_data_bytes"
          /\ code \in Byte
          /\ command = <<>> /\ size = 0 /\ velocity = 0 /\ radius = 0
          /\ packet = 0 /\ raw = <<>> /\ stream = <<>>
       \/ /\ fn = "DriveSequence"
          /\ velocity \in Velocities
          /\ radius \in Radii
          /\ command = <<>> /\ size = 0 /\ code = 0
          /\ packet = 0 /\ raw = <<>> /\ stream = <<>>
       \/ /\ fn = "PacketValue"
          /\ packet \in PacketIds
          /\ raw \in RawBytes(packet)
          /\ command = <<>> /\ size = 0 /\ code = 0 /\ velocity = 0 /\ radius = 0
          /\ stream = <<>>
       \/ /\ fn = "StreamSegment"
          /\ stream \in Segments
          /\ command = <<>> /\ size = 0 /\ code = 0 /\ velocity = 0 /\ radius = 0
          /\ packet = 0 /\ raw = <<>>
       \/ /\ fn = "GroupValue"
          /\ packet \in ROOMBA_PACKET_GROUP
          /\ raw \in GroupBuffers(packet)
          /\ command = <<>> /\ size = 0 /\ code = 0 /\ velocity = 0 /\ radius = 0
          /\ stream = <<>>
       \/ /\ fn = "HIGH_BYTE"
          /\ velocity \in Words16
          /\ command = <<>> /\ size = 0 /\ code = 0 /\ radius = 0
          /\ packet = 0 /\ raw = <<>> /\ stream = <<>>

Validate ==
    /\ pc = "call" /\ fn = "is_valid_roomba_command"
    /\ ret' = is_valid_roomba_command(command, size, intBits)
    /\ reads' = command_reads(command, size, intBits)
    /\ pc' = "return"
    /\ UNCHANGED <<intBits, fn, command, size, code, velocity, radius, sequence, packetVars>>

Lookup ==
    /\ pc = "call" /\ fn = "get_command_data_bytes"
    /\ ret' = get_command_data_bytes(code)
    /\ pc' = "return"
    /\ UNCHANGED <<intBits, fn, command, size, code, velocity, radius, reads, sequence,
                   packetVars>>

Drive ==
    /\ pc = "call" /\ fn = "DriveSequence"
    /\ sequence' = DriveSequence(velocity, radius, intBits)
    /\ pc' = "return"
    /\ UNCHANGED <<intBits, fn, command, size, code, velocity, radius, ret, reads, packetVars>>

\* the data bytes of one packet are read as the value of its field
ReadPacket ==
    /\ pc = "call" /\ fn = "PacketValue"
    /\ value' = PacketValue(packet, raw)
    /\ pc' = "return"
    /\ UNCHANGED <<intBits, fn, command, size, code, velocity, radius, ret, reads, sequence,
                   packet, raw, stream, nbytes, lowsum, readings>>

\* a stream segment is read: its byte count, its checksum sum and its packets
ReadSegment ==
    /\ pc = "call" /\ fn = "StreamSegment"
    /\ nbytes' = Len(Payload(stream))
    /\ lowsum' = ByteSum(stream) % 256
    /\ readings' = SplitPackets(Payload(stream))
    /\ pc' = "return"
    /\ UNCHANGED <<intBits, fn, command, size, code, velocity, radius, ret, reads, sequence,
                   packet, raw, value, stream>>

\* the data bytes of a group packet are read as the values of the fields of
\* its struct
ReadGroup ==
    /\ pc = "call" /\ fn = "GroupValue"
    /\ readings' = GroupValue(Struct(packet), raw)
    /\ pc' = "return"
    /\ UNCHANGED <<intBits, fn, command, size, code, velocity, radius, ret, reads, sequence,
                   packet, raw, value, stream, nbytes, lowsum>>

\* a 16-bit value is split with the two macros: <<HIGH_BYTE(v), LOW_BYTE(v)>>
Split ==
    /\ pc = "call" /\ fn = "HIGH_BYTE"
    /\ sequence' = <<HIGH_BYTE(velocity, intBits), LOW_BYTE(velocity, intBits)>>
    /\ pc' = "return"
    /\ UNCHANGED <<intBits, fn, command, size, code, velocity, radius, ret, reads, packetVars>>

Next == Validate \/ Lookup \/ Drive \/ ReadPacket \/ ReadSegment \/ ReadGroup \/ Split

Spec == Init /\ [][Next]_vars

----------------------------------------------------------------------------
(* Vocabulary of the claims *)

\* two bytes read as a big-endian 16-bit pattern / signed two's-complement value
Word16(hi, lo) == hi * 256 + lo
Signed16(hi, lo) == IF hi >= 128 THEN Word16(hi, lo) - 65536 ELSE Word16(hi, lo)

Validated == pc = "return" /\ fn = "is_valid_roomba_command"

VelocityInRange(cmd) == Signed16(cmd[2], cmd[3]) \in -500..500
RadiusInDomain(cmd) ==
    \/ Signed16(cmd[4], cmd[5]) \in -2000..2000
    \/ Word16(cmd[4], cmd[5]) \in {32767, 32768}

----------------------------------------------------------------------------
(* Claims *)

\* C1: for a command whose first byte is 137 (Drive), the validator returns
\* true if and only if size = 5, the velocity read as a big-endian signed
\* 16-bit integer is in [-500, 500] and the radius read the same way is in
\* [-2000, 2000] or is the pattern 0x7FFF or 0x8000.
C1_DriveIff ==
    Validated /\ command[1] = ROOMBA_DRIVE =>
        (ret = 1 <=> (size = 5 /\ VelocityInRange(command) /\ RadiusInDomain(command)))

\* C2: for a command whose first byte is 7 (Reset), the validator returns
\* true if and only if size = 1, whatever bytes follow the opcode.
C2_ResetIff ==
    Validated /\ command[1] = ROOMBA_RESET =>
        /\ ret \in {0, 1}
        /\ ret = 1 <=> size = 1

\* a Reset opcode followed by further non-zero bytes, passed with size 1, was accepted
C2_Witness ==
    /\ Validated /\ command[1] = ROOMBA_RESET
    /\ Len(command) > 1 /\ command[2] # 0
    /\ size = 1 /\ ret = 1

\* C3: for every first byte other than 7 (Reset) and 137 (Drive) the
\* validator returns false, for every size and every content.
C3_OthersInvalid ==
    Validated /\ command[1] \notin {ROOMBA_RESET, ROOMBA_DRIVE} => ret = 0

\* the one-byte Start command [128] was rejected
C3_Witness ==
    /\ Validated /\ command = <<ROOMBA_START>> /\ size = 1 /\ ret = 0

\* C4: for every opcode with 0 declared data bytes, the 1-byte command
\* [opcode] is valid and every 2-byte command [opcode, x] is invalid.
ZeroDataOpcodes ==
    {ROOMBA_RESET, ROOMBA_START, ROOMBA_SAFE, ROOMBA_FULL, ROOMBA_SPOT,
     ROOMBA_CLEAN, ROOMBA_MAX, ROOMBA_SEEK_DOCK, ROOMBA_STOP}

C4_ZeroDataOpcodes ==
    Validated /\ command[1] \in ZeroDataOpcodes =>
        /\ Len(command) = 1 /\ size = 1 => ret = 1
        /\ Len(command) = 2 /\ size = 2 => ret = 0

\* C5: a 5-byte Drive command whose signed velocity is outside [-500, 500]
\* is rejected whatever the radius bytes are; and a true verdict for Drive
\* implies size = 5, velocity in [-500, 500] and radius in [-2000, 2000] or
\* equal to 0x7FFF or 0x8000.
C5_DriveSound ==
    Validated /\ command[1] = ROOMBA_DRIVE =>
        /\ size = 5 /\ ~VelocityInRange(command) => ret = 0
        /\ ret = 1 => size = 5 /\ VelocityInRange(command) /\ RadiusInDomain(command)

\* velocity 501 with the in-range radius 500 was rejected
C5_Witness ==
    /\ Validated /\ command = <<ROOMBA_DRIVE, 1, 245, 1, 244>> /\ size = 5 /\ ret = 0

\* C6: a 5-byte Drive command with an in-range velocity is accepted for each
\* of the special radius patterns 0x7FFF, 0x8000, 0xFFFF and 0x0001.
C6_SpecialRadii ==
    /\ Validated /\ command[1] = ROOMBA_DRIVE /\ size = 5
    /\ VelocityInRange(command)
    /\ Word16(command[4], command[5]) \in
          {ROOMBA_RADIUS_STRAIGHT_POSITIVE, ROOMBA_RADIUS_STRAIGHT_NEGATIVE,
           ROOMBA_RADIUS_CLOCKWISE, ROOMBA_RADIUS_COUNTER_CLOCKWISE}
    => ret = 1

\* C7: the catalog lookup returns the documented data-byte count of every
\* covered opcode and returns -1 only for codes that are not in the catalog.
CoveredOpcodes ==
    {ROOMBA_RESET, ROOMBA_START, ROOMBA_SAFE, ROOMBA_FULL, ROOMBA_SPOT,
     ROOMBA_CLEAN, ROOMBA_MAX, ROOMBA_STOP, ROOMBA_BAUD, ROOMBA_MOTORS,
     ROOMBA_PLAY, ROOMBA_SENSORS, ROOMBA_PAUSE_RESUME_STREAM,
     ROOMBA_BUTTONS_CMD, ROOMBA_LEDS, ROOMBA_PWM_MOTORS, ROOMBA_SET_DAY_TIME,
     ROOMBA_DRIVE, ROOMBA_DRIVE_DIRECT, ROOMBA_DRIVE_PWM, ROOMBA_SCHEDULE}

C7_CatalogLookup ==
    pc = "return" /\ fn = "get_command_data_bytes" =>
        /\ code \in CoveredOpcodes => ret = DataBytes[code]
        /\ ret = -1 => code \notin DOMAIN DataBytes

\* C8: the Drive serial sequence is the opcode followed by velocity and
\* radius, each as two bytes, high byte first, in two's complement:
\* [137, (v mod 65536) div 256, v mod 256, (r mod 65536) div 256, r mod 256];
\* velocity -200 and radius 500 give [137, 0xFF, 0x38, 0x01, 0xF4].
C8_DriveBytes ==
    pc = "return" /\ fn = "DriveSequence" =>
        /\ sequence = <<137, (velocity % 65536) \div 256, velocity % 256,
                             (radius % 65536) \div 256, radius % 256>>
        /\ velocity = -200 /\ radius = 500 => sequence = <<137, 255, 56, 1, 244>>

\* velocity -200 and radius 500 were split on a build with a 32-bit int
C8_Witness ==
    /\ pc = "return" /\ fn = "DriveSequence" /\ intBits = 32
    /\ velocity = -200 /\ radius = 500
    /\ sequence = <<137, 255, 56, 1, 244>>

SignedPackets == {19, 20, 23, 24, 39, 40, 41, 42, 54, 55, 56, 57}

RECURSIVE Members(_, _, _)
Members(first, last, bytes) ==
    IF first > last THEN <<>>
    ELSE LET w == PacketBytes(first)
         IN  <<<<first, PacketValue(first, SubSeq(bytes, 1, w))>>>>
             \o Members(first + 1, last, SubSeq(bytes, w + 1, Len(bytes)))

FirstPacket(group) == CHOOSE id \in ContainsPackets[group] :
                          \A other \in ContainsPackets[group] : id <= other
LastPacket(group) == CHOOSE id \in ContainsPackets[group] :
                         \A other \in ContainsPackets[group] : id >= other

C22_GroupEqualsMembers ==
    pc = "return" /\ fn = "GroupValue" =>
        /\ readings = Members(FirstPacket(packet), LastPacket(packet), raw)
        /\ packet = 2 =>
              /\ Len(raw) = 6
              /\ readings = <<<<17, PacketValue(17, SubSeq(raw, 1, 1))>>,
                              <<18, PacketValue(18, SubSeq(raw, 2, 2))>>,
                              <<19, PacketValue(19, SubSeq(raw, 3, 4))>>,
                              <<20, PacketValue(20, SubSeq(raw, 5, 6))>>>>

\* group 2 was read from the bytes FF 80 FF 80 FF 80: distance and angle are -128
C22_Witness ==
    /\ pc = "return" /\ fn = "GroupValue" /\ packet = 2
    /\ raw = <<255, 128, 255, 128, 255, 128>>
    /\ readings = <<<<17, 255>>, <<18, 128>>, <<19, -128>>, <<20, -128>>>>

\* C23: for every group id (0, 1, 2, 3, 4, 5, 6, 100, 101, 106, 107) the
\* documented data bytes of the packets in its documented id range add up to
\* the documented Packet Size (26, 10, 6, 10, 14, 12, 52, 80, 28, 12, 9), and
\* so do the sizes of the fields of the struct ROOMBA_PACKET_GROUP_n, whose
\* fields are the packets of the range in ascending packet-id order.
\* The sizes the claim lists:
ClaimedPacketSize ==
    (0 :> 26) @@ (1 :> 10) @@ (2 :> 6) @@ (3 :> 10) @@ (4 :> 14) @@ (5 :> 12) @@
    (6 :> 52) @@ (100 :> 80) @@ (101 :> 28) @@ (106 :> 12) @@ (107 :> 9)

\* the documented data bytes of the packets first..last, added up
RECURSIVE SumDataBytes(_, _)
SumDataBytes(first, last) ==
    IF first > last THEN 0
    ELSE PacketDataBytes[first - ROOMBA_BUMPS_WHEELDROPS + 1] + SumDataBytes(first + 1, last)

C23_GroupSizes ==
    pc = "return" /\ fn = "GroupValue" =>
        /\ packet \in DOMAIN ClaimedPacketSize
        /\ GroupPacketSize[packet] = ClaimedPacketSize[packet]
        /\ SumDataBytes(FirstPacket(packet), LastPacket(packet)) = GroupPacketSize[packet]
        /\ StructBytes(Struct(packet)) = GroupPacketSize[packet]
        /\ StructPackets(Struct(packet)) =
              [i \in 1..Cardinality(ContainsPackets[packet]) |-> FirstPacket(packet) + i - 1]
        /\ Len(raw) = GroupPacketSize[packet]
        /\ Len(readings) = Cardinality(ContainsPackets[packet])

\* group 4 (packets 27 - 34, with the unused packets 32 and 33) was read from
\* 14 bytes into 8 fields
C23_Witness ==
    /\ pc = "return" /\ fn = "GroupValue" /\ packet = 4
    /\ Len(raw) = 14 /\ Len(readings) = 8
    /\ readings[6][1] = 32 /\ readings[7][1] = 33

\* C24: is_valid_roomba_command reads only the array elements with an index
\* below size, for every call including size = 0: element 0 only when
\* size >= 1 and elements 1..4 only when size = 5.
C24_ReadsBelowSize ==
    Validated =>
        /\ \A i \in reads : i < size
        /\ 0 \in reads => size >= 1
        /\ reads \cap 1..4 # {} => size = 5

\* C25: the validator and the catalog lookup agree: whenever the validator
\* returns true, get_command_data_bytes of the opcode is non-negative and
\* size is 1 plus that number.
C25_ValidatorMatchesLookup ==
    Validated /\ ret = 1 =>
        /\ get_command_data_bytes(command[1]) >= 0
        /\ size = 1 + get_command_data_bytes(command[1])

\* C26: the verdict on a 5-byte Drive command does not depend on the width
\* of C int: the build with a 16-bit int and the build with a 32-bit int
\* return the same value for the same four data bytes.
C26_SameVerdictAtBothWidths ==
    Validated /\ command[1] = ROOMBA_DRIVE /\ size = 5 =>
        /\ ret = is_valid_roomba_command(command, size, 16)
        /\ ret = is_valid_roomba_command(command, size, 32)

\* C27: HIGH_BYTE and LOW_BYTE split a 16-bit value without loss: for every
\* integer v in [-32768, 32767] both are in 0..255 and
\* HIGH_BYTE(v) * 256 + LOW_BYTE(v) = v mod 65536, with a 16-bit unsigned int
\* and with a wider one.
C27_LosslessSplit ==
    pc = "return" /\ fn = "HIGH_BYTE" =>
        /\ velocity \in -32768..32767
        /\ sequence[1] \in 0..255
        /\ sequence[2] \in 0..255
        /\ sequence[1] * 256 + sequence[2] = velocity % 65536

\* -32768 was split on a build with a 32-bit unsigned int: 0x80 0x00
C27_Witness ==
    /\ pc = "return" /\ fn = "HIGH_BYTE" /\ intBits = 32
    /\ velocity = -32768 /\ sequence = <<128, 0>>

\* C28: the verdict of is_valid_roomba_command depends only on size and on
\* the bytes command[0..size-1]: a call with the same size on an array that
\* agrees on the first size bytes returns the same result; the call leaves
\* the command array unchanged and returns only 0 or 1.
\* Bytes that may follow the first size bytes in another array:
OtherTails ==
    {<<>>, <<0>>, <<255>>, <<ROOMBA_RESET>>, <<ROOMBA_DRIVE>>, <<1, 244>>,
     <<0, 200, 1, 244>>, <<ROOMBA_DRIVE, 0, 200, 1, 244>>,
     <<ROOMBA_RESET, 255, 255, 255, 255>>, <<255, 255, 255, 255, 255>>}

\* arrays that agree with cmd on the first sz bytes
AgreeingArrays(cmd, sz) ==
    {a \in {SubSeq(cmd, 1, sz) \o t : t \in OtherTails} : Len(a) >= 1}

C28_VerdictDependsOnPrefix ==
    /\ [](Validated =>
            /\ ret \in {0, 1}
            /\ \A other \in AgreeingArrays(command, size) :
                   is_valid_roomba_command(other, size, intBits) = ret)
    /\ [][pc = "call" /\ fn = "is_valid_roomba_command" =>
             command' = command /\ size' = size]_vars

\* a Drive array with valid data bytes was passed with size 1 and rejected,
\* as the one-byte array [137] is
C28_Witness ==
    /\ Validated /\ command = <<ROOMBA_DRIVE, 0, 200, 0, 200>> /\ size = 1
    /\ ret = 0
    /\ is_valid_roomba_command(<<ROOMBA_DRIVE>>, 1, intBits) = 0

\* C29: group layouts compose: the byte layout (ordered members with their
\* widths) of group 0 is that of groups 1, 2 and 3 one after the other, group
\* 6 is groups 0, 4 and 5, group 100 is groups 6 and 101, and groups 106 and
\* 107 are contiguous slices of group 101; so a byte offset belongs to the
\* same packet id, and gives the same value, in a group and in the larger
\* group that contains it.
\* The <<packet id, width>> of every field of a struct:
Layout(fields) ==
    [i \in 1..Len(fields) |-> <<ROOMBA_PACKET_CODE[fields[i][2]], TypeBytes(fields[i][1])>>]

\* the part of the readings of the larger group `big`, read from bytes,
\* that the fields k+1 .. k+Len(small) give, is what `small` gives on the
\* bytes at the same offsets
SameAt(small, big, k, bytes, values) ==
    LET offset == StructBytes(SubSeq(big, 1, k))
    IN  /\ SubSeq(Layout(big), k + 1, k + Len(small)) = Layout(small)
        /\ SubSeq(values, k + 1, k + Len(small)) =
              GroupValue(small, SubSeq(bytes, offset + 1, offset + StructBytes(small)))

C29_LayoutsCompose ==
    pc = "return" /\ fn = "GroupValue" =>
        /\ packet = 0 =>
              /\ Layout(pkt_group_0) =
                    Layout(pkt_group_1) \o Layout(pkt_group_2) \o Layout(pkt_group_3)
              /\ SameAt(pkt_group_1, pkt_group_0, 0, raw, readings)
              /\ SameAt(pkt_group_2, pkt_group_0, Len(pkt_group_1), raw, readings)
              /\ SameAt(pkt_group_3, pkt_group_0, Len(pkt_group_1) + Len(pkt_group_2),
                        raw, readings)
        /\ packet = 6 =>
              /\ Layout(pkt_group_6) =
                    Layout(pkt_group_0) \o Layout(pkt_group_4) \o Layout(pkt_group_5)
              /\ SameAt(pkt_group_0, pkt_group_6, 0, raw, readings)
              /\ SameAt(pkt_group_4, pkt_group_6, Len(pkt_group_0), raw, readings)
              /\ SameAt(pkt_group_5, pkt_group_6, Len(pkt_group_0) + Len(pkt_group_4),
                        raw, readings)
        /\ packet = 100 =>
              /\ Layout(pkt_group_100) = Layout(pkt_group_6) \o Layout(pkt_group_101)
              /\ SameAt(pkt_group_6, pkt_group_100, 0, raw, readings)
              /\ SameAt(pkt_group_101, pkt_group_100, Len(pkt_group_6), raw, readings)
        /\ packet = 101 =>
              /\ \E k \in 0..(Len(pkt_group_101) - Len(pkt_group_106)) :
                     SameAt(pkt_group_106, pkt_group_101, k, raw, readings)
              /\ \E k \in 0..(Len(pkt_group_101) - Len(pkt_group_107)) :
                     SameAt(pkt_group_107, pkt_group_101, k, raw, readings)

\* group 0 was read from 26 bytes; its fields 11..14 are group 2 on bytes 10..15
C29_Witness ==
    /\ pc = "return" /\ fn = "GroupValue" /\ packet = 0
    /\ Len(raw) = 26 /\ raw[11] = 255 /\ raw[12] = 128
    /\ SubSeq(readings, 11, 14) = <<<<17, 255>>, <<18, 128>>, <<19, -128>>, <<20, -128>>>>
    /\ SubSeq(readings, 11, 14) = GroupValue(pkt_group_2, SubSeq(raw, 11, 16))

====
